---- MODULE Spec2Model ----
(***************************************************************************)
(* Model of the download job lifecycle of aseltyar/Video-Downloader:       *)
(* downloader/views.py (index, download_task, get_progress, download_file) *)
(* and downloader/downloader.py (is_valid_url, _progress_hook,             *)
(* download_video).  The Django cache is a key-value store with absolute   *)
(* expiry times; yt_dlp is an opaque engine that calls the progress hook,  *)
(* writes files into the shared downloads directory and returns or raises. *)
(* Text values (URLs, format selectors, exception messages) are sequences  *)
(* of characters or tokens so that the string operations of the code       *)
(* (strip, urlparse, startswith, concatenation) are computed, not assumed. *)
(***************************************************************************)
EXTENDS Integers, Sequences, FiniteSets, TLC

\* ------------------------------------------------------------------ bounds
\* Number of submissions accepted in the single-job specification Spec.
MaxJobs == 1
\* Number of submissions accepted in the shared-directory specification.
MaxSharedJobs == 2
\* Largest byte count (in absolute value) of a progress callback in SpecHook.
MaxBytes == 4
\* Number of progress callbacks the engine delivers to one job's hook.
MaxCallbacks == 2
\* Number of times the clock advances in one behaviour.
MaxTicks == 2
\* Largest byte size of a file the engine writes.
MaxSize == 1
\* Largest number of entries in the format catalog the engine reports.
MaxCatalog == 3
\* Largest number of tokens in a format selector handed to download_video.
MaxSelectorLen == 3

\* ------------------------------------------------------- program constants
\* views.py: cache.set(progress_id, ..., 300); downloader.py: the hook's and
\* the failure handler's 300.
ShortTTL == 300
\* downloader.py: cache.set(progress_id, {'status': 'completed', ...}, 3600);
\* views.py: cache.set(f"{progress_id}_file", file_path, 3600).
LongTTL == 3600

\* ------------------------------------------------------------ text helpers
\* str.strip(): drop leading and trailing blanks.
RECURSIVE LStrip(_)
LStrip(s) ==
    IF s # <<>> /\ Head(s) = " " THEN LStrip(Tail(s)) ELSE s

RECURSIVE RStrip(_)
RStrip(s) ==
    IF s # <<>> /\ s[Len(s)] = " " THEN RStrip(SubSeq(s, 1, Len(s) - 1)) ELSE s

Strip(s) == RStrip(LStrip(s))

\* str.find(c) as a 1-based position, 0 when c does not occur (Python's -1).
Find(s, c) ==
    IF \E i \in 1..Len(s) : s[i] = c
    THEN CHOOSE i \in 1..Len(s) : s[i] = c /\ \A k \in 1..(i - 1) : s[k] # c
    ELSE 0

\* str.lower() on the letters the model's URLs use.
LowerChar(c) ==
    CASE c = "H" -> "h"
      [] c = "T" -> "t"
      [] c = "P" -> "p"
      [] c = "S" -> "s"
      [] c = "G" -> "g"
      [] OTHER -> c

Lower(s) == [i \in 1..Len(s) |-> LowerChar(s[i])]

\* str.startswith(prefix).
StartsWith(s, prefix) ==
    Len(s) >= Len(prefix) /\ SubSeq(s, 1, Len(prefix)) = prefix

\* str.replace(old, ''): one pass from the left that drops every occurrence
\* of old, the first one and all later ones alike.
RECURSIVE Remove(_, _)
Remove(s, old) ==
    IF s = <<>> THEN <<>>
    ELSE IF StartsWith(s, old) THEN Remove(SubSeq(s, Len(old) + 1, Len(s)), old)
         ELSE <<Head(s)>> \o Remove(Tail(s), old)

\* ------------------------------------------------------------ is_valid_url
Letters == {"h", "t", "p", "s", "f", "g", "H", "T", "P", "S", "G"}

\* urllib.parse.scheme_chars restricted to the model's alphabet.
SchemeChars == Letters \cup {"1", "+", "-", "."}

\* urlsplit: the scheme is the text before the first ':' when that text is not
\* empty, starts with a letter and consists of scheme characters.
HasScheme(u) ==
    LET i == Find(u, ":")
    IN  /\ i > 1
        /\ u[1] \in Letters
        /\ \A k \in 1..(i - 1) : u[k] \in SchemeChars

UrlScheme(u) ==
    IF HasScheme(u) THEN Lower(SubSeq(u, 1, Find(u, ":") - 1)) ELSE <<>>

\* The rest of the URL after the scheme and its ':'.
UrlRest(u) ==
    IF HasScheme(u) THEN SubSeq(u, Find(u, ":") + 1, Len(u)) ELSE u

\* _splitnetloc(url, 2): the netloc runs from after '//' to the first of / ? #.
UrlNetloc(u) ==
    LET r == UrlRest(u)
        stops == {i \in 3..Len(r) : r[i] \in {"/", "?", "#"}}
        end == IF stops = {} THEN Len(r)
               ELSE (CHOOSE i \in stops : \A k \in stops : i <= k) - 1
    IN  IF StartsWith(r, <<"/", "/">>) THEN SubSeq(r, 3, end) ELSE <<>>

\* urlsplit raises ValueError("Invalid IPv6 URL") on an unbalanced bracket.
UrlParseRaises(u) ==
    LET n == UrlNetloc(u)
        has(c) == \E i \in 1..Len(n) : n[i] = c
    IN  (has("[") /\ ~has("]")) \/ (has("]") /\ ~has("["))

\* The validation without the host check.
is_valid_url_no_host(u) ==
    UrlScheme(u) \in {<<"h", "t", "t", "p">>, <<"h", "t", "t", "p", "s">>}

is_valid_url(u) ==
    IF UrlParseRaises(u) THEN FALSE
    ELSE /\ UrlScheme(u) \in {<<"h", "t", "t", "p">>, <<"h", "t", "t", "p", "s">>}
         /\ UrlNetloc(u) # <<>>

\* ------------------------------------------------------------------ inputs
\* URLs a client may post: empty, blank, no scheme, host without scheme,
\* scheme without host, non-http scheme, unbalanced bracket, and valid ones
\* (one padded with blanks, one with an upper-case scheme).
UrlEmpty == <<>>
UrlBlank == <<" ", " ">>
UrlNoScheme == <<"h", "-", "h">>
UrlNoSchemeHost == <<"/", "/", "h">>
UrlNoHost == <<"h", "t", "t", "p", ":", "/", "/", "/", "p">>
UrlNoSlashes == <<"h", "t", "t", "p", "s", ":", "h">>
UrlFtp == <<"f", "t", "p", ":", "/", "/", "h">>
UrlBracket == <<"h", "t", "t", "p", ":", "/", "/", "[", "h">>
UrlPadded == <<" ", "h", "t", "t", "p", "s", ":", "/", "/", "h", "/", "p", " ">>
UrlUpper == <<"H", "T", "T", "P", ":", "/", "/", "g">>

Urls ==
    {UrlEmpty, UrlBlank, UrlNoScheme, UrlNoSchemeHost, UrlNoHost, UrlNoSlashes,
     UrlFtp, UrlBracket, UrlPadded, UrlUpper}

\* Format selectors as token sequences: the two legacy selectors, the empty
\* selector, and the category-prefixed ids get_available_formats produces.
FmtMp4 == <<"mp4">>
FmtMp3 == <<"mp3">>
FmtEmpty == <<>>
FmtVideoAudio == <<"video_", "audio_", "18">>
FmtVideo == <<"video_", "137">>
FmtAudio == <<"audio_", "140">>

Formats == {FmtMp4, FmtMp3, FmtEmpty, FmtVideoAudio, FmtVideo, FmtAudio}

\* Selectors handed to download_video directly: every sequence of one to
\* MaxSelectorLen tokens, where a token is a category tag, an engine id or a
\* legacy selector.  An engine id may itself contain the text of a tag.
SelectorTokens == {"video_", "audio_", "18", "mp3"}

Selectors ==
    UNION {[1..n -> SelectorTokens] : n \in 0..MaxSelectorLen}

\* Messages the engine's exceptions carry (str(e)), as token sequences; an
\* exception constructed without arguments has the empty text.
EngineErrors == {<<>>, <<"boom">>}

\* Extensions of the files the engine writes, and of the path
\* ydl.prepare_filename(info) predicts.
WriteExts == {"mp4", "webm"}
PredictedExts == {"mp4", "mkv"}

\* Entries of the engine's format catalog: a combined stream, a video-only
\* stream without a size, a video-only stream without a resolution, an
\* audio-only stream, an entry without codecs and a combined stream under 1KB.
EntryCombined ==
    [format_id |-> "18", vcodec |-> "avc1", acodec |-> "mp4a",
     resolution |-> <<"2", "x", "1">>, filesize |-> 2048]

EntryVideo ==
    [format_id |-> "137", vcodec |-> "avc1", acodec |-> "none",
     resolution |-> <<"4", "x", "3">>]

EntryVideoNoRes ==
    [format_id |-> "22", vcodec |-> "avc1", acodec |-> "none", filesize |-> 4096]

EntryAudio ==
    [format_id |-> "140", vcodec |-> "none", acodec |-> "mp4a",
     resolution |-> <<"a", "u", "d", "i", "o">>, filesize |-> 4096]

EntryNeither ==
    [format_id |-> "sb0", vcodec |-> "none", acodec |-> "none",
     resolution |-> <<"4", "x", "3">>, filesize |-> 2048]

EntryTiny ==
    [format_id |-> "17", vcodec |-> "avc1", acodec |-> "mp4a",
     resolution |-> <<"1", "x", "1">>, filesize |-> 512]

EngineFormats ==
    {EntryCombined, EntryVideo, EntryVideoNoRes, EntryAudio, EntryNeither,
     EntryTiny}

\* What extract_info(url, download=False) may return: None, a dictionary
\* without formats, or one with a list of at most MaxCatalog entries.
Infos ==
    {[kind |-> "none"], [kind |-> "no_formats"]}
    \cup {[kind |-> "list", formats |-> c] :
            c \in UNION {[1..n -> EngineFormats] : n \in 0..MaxCatalog}}

\* Progress callbacks the engine may deliver: a dictionary with a status and,
\* optionally, the byte counts; the last one carries no status.
Callbacks ==
    {[status |-> "downloading", downloaded_bytes |-> 1, total_bytes |-> 2],
     [status |-> "downloading", downloaded_bytes |-> 2, total_bytes |-> 1],
     [status |-> "finished"],
     [status |-> "error"],
     [downloaded_bytes |-> 1]}

\* ------------------------------------------------------------------- state
VARIABLES
    now,      \* the clock, in seconds
    ticks,    \* how many times the clock has advanced
    cache,    \* the Django cache: key -> [val, exp]
    files,    \* the downloads directory: path -> byte size
    jobs,     \* the submissions accepted so far; job id = position
    th,       \* per job id, the state of its download_task thread
    last      \* the response index gave to the latest submission

vars == <<now, ticks, cache, files, jobs, th, last>>

\* Job ids (uuid4 values): issued in order; the last one is never issued.
MaxOf(a, b) == IF a >= b THEN a ELSE b

Ids == 1..(MaxOf(MaxJobs, MaxSharedJobs) + 1)

\* The two cache keys of a job: progress_id and f"{progress_id}_file".
StatusKey(j) == <<j, "">>
FileKey(j) == <<j, "_file">>

NotFound == [status |-> "not_found"]

\* cache.set(key, value, timeout): the entry expires timeout seconds from now
\* (set_at records when it was written).
CacheSet(c, key, value, timeout) ==
    [k \in DOMAIN c \cup {key} |->
        IF k = key THEN [val |-> value, exp |-> now + timeout, set_at |-> now]
        ELSE c[k]]

\* An entry is gone once its expiry time is reached.
Live(c, key) == key \in DOMAIN c /\ c[key].exp > now

\* cache.get(key, default).
CacheGet(c, key, default) == IF Live(c, key) THEN c[key].val ELSE default

\* os.path.exists / os.path.getsize on the downloads directory.
Exists(path) == path \in DOMAIN files

WriteFile(fs, path, size) ==
    [p \in DOMAIN fs \cup {path} |-> IF p = path THEN size ELSE fs[p]]

RemoveFile(fs, path) == [p \in DOMAIN fs \ {path} |-> fs[p]]

\* The engine options of a thread that has not built them yet.
NoOpts == [format |-> <<>>, postprocessors |-> FALSE]

\* The thread of a job that has not been submitted.
NoThread ==
    [pc |-> "none", filename |-> <<>>, file_size |-> 0, exc |-> <<>>,
     ncb |-> 0, wrote |-> FALSE, ydl_opts |-> NoOpts]

Init ==
    /\ now = 0
    /\ ticks = 0
    /\ cache = <<>>
    /\ files = <<>>
    /\ jobs = <<>>
    /\ th = [j \in Ids |-> NoThread]
    /\ last = <<>>

\* A write of `value` to job j's status record.
SetStatus(j, value, timeout) ==
    cache' = CacheSet(cache, StatusKey(j), value, timeout)

\* ------------------------------------------------------------ views.index
\* A record a plausible slip would seed instead of the queued one.
QueuedRecordAsStarting == [status |-> "starting"]

\* cache.set(progress_id, {'status': 'queued'}, 300).
QueuedRecord == [status |-> "queued"]

\* The format check of index.
FormatAccepted(format_type) == format_type \in {FmtMp4, FmtMp3}

\* What index answers to a JSON POST of {url, format} without creating a job.
IndexError(url, format_type) ==
    IF url = <<>> THEN "URL is required"
    ELSE IF ~is_valid_url(url) THEN "Invalid URL"
    ELSE IF ~FormatAccepted(format_type) THEN "Invalid format selected"
    ELSE "none"

\* The answers of index to the requests of the model, computed once.
IndexErrors == [u \in Urls, f \in Formats |-> IndexError(Strip(u), f)]

\* index, JSON POST: validates, issues a fresh id, writes the queued record
\* and starts the download_task thread before it answers.
index(rawurl, format_type) ==
    LET url == Strip(rawurl)
        err == IndexErrors[rawurl, format_type]
        progress_id == Len(jobs) + 1
    IN  IF err # "none"
        THEN /\ last' = [error |-> err]
             /\ UNCHANGED <<now, ticks, cache, files, jobs, th>>
        ELSE /\ progress_id \in Ids
             /\ jobs' = Append(jobs, [url |-> url, format |-> format_type])
             /\ SetStatus(progress_id, QueuedRecord, ShortTTL)
             /\ th' = [th EXCEPT ![progress_id].pc = "spawned"]
             /\ last' = [progress_id |-> progress_id]
             /\ UNCHANGED <<now, ticks, files>>

\* A submission, while fewer than `limit` jobs have been accepted.
Submit(rawurl, format_type, limit) ==
    /\ index(rawurl, format_type)
    /\ Len(jobs') <= limit

\* ------------------------------------------------------ views.get_progress
get_progress(progress_id) == CacheGet(cache, StatusKey(progress_id), NotFound)

\* ----------------------------------------------------- views.download_file
\* The file response carries the path and the bytes served (their count).
download_file(progress_id) ==
    LET file_path == CacheGet(cache, FileKey(progress_id), <<>>)
    IN  IF file_path = <<>>
        THEN [kind |-> "error", error |-> "File not ready or not found"]
        ELSE IF Exists(file_path)
             THEN [kind |-> "file", path |-> file_path, size |-> files[file_path]]
             ELSE [kind |-> "error", error |-> "File not found"]

\* ------------------------------------------------------------------- time
Tick(d) ==
    /\ ticks < MaxTicks
    /\ now' = now + d
    /\ ticks' = ticks + 1
    /\ UNCHANGED <<cache, files, jobs, th, last>>

\* ----------------------------------------------------------- _progress_hook
\* d.get('_downloaded_bytes', 0) and d.get('_total_bytes', 1).
HookDownloaded(d) ==
    IF "downloaded_bytes" \in DOMAIN d THEN d.downloaded_bytes ELSE 0

HookTotal(d) == IF "total_bytes" \in DOMAIN d THEN d.total_bytes ELSE 1

\* int(x) of a quotient: truncation toward zero (b > 0).
TruncDiv(a, b) == IF a >= 0 THEN a \div b ELSE -((-a) \div b)

\* int((downloaded / total) * 100 if total > 0 else 0).  The quotient is a
\* float: on the byte counts of this model (absolute value at most 6) the float
\* result equals the exact truncated quotient; on larger counts it need not
\* (int((29 / 100) * 100) is 28).
Percent(downloaded, total) ==
    IF total > 0 THEN TruncDiv(downloaded * 100, total) ELSE 0

\* The record the hook stores for a downloading callback.
ProgressRecord(d) ==
    [status |-> "downloading",
     percent |-> Percent(HookDownloaded(d), HookTotal(d)),
     downloaded |-> HookDownloaded(d),
     total |-> HookTotal(d),
     speed |-> "N/A",
     eta |-> "N/A"]

HookErrorRecord == [status |-> "error", error |-> <<"Download failed">>]

\* The hook with the long retention window instead of the short one.
hook_long_ttl(j, d) ==
    IF d.status = "downloading"
    THEN SetStatus(j, ProgressRecord(d), LongTTL)
    ELSE IF d.status = "error"
         THEN SetStatus(j, HookErrorRecord, LongTTL)
         ELSE UNCHANGED cache

\* hook(d): one progress callback of the engine for job j.
hook(j, d) ==
    IF d.status = "downloading"
    THEN SetStatus(j, ProgressRecord(d), ShortTTL)
    ELSE IF d.status = "error"
         THEN SetStatus(j, HookErrorRecord, ShortTTL)
         ELSE UNCHANGED cache

\* ----------------------------------------------------------- download_video
\* The title the engine's metadata gives a source: one per host.
Title(url) == UrlNetloc(url)

\* os.path.join(download_dir, '%(title)s.%(ext)s').
Path(title, ext) == <<title, ext>>

\* filename.rsplit('.', 1)[0] + ext.
WithExt(path, ext) == <<path[1], ext>>

ErrorRecord(msg) == [status |-> "error", error |-> msg]

\* A completed record that carries a final progress figure as well.
CompletedRecord_with_percent(filename, file_size) ==
    [status |-> "completed", filename |-> filename, size |-> file_size,
     percent |-> 100]

CompletedRecord(filename, file_size) ==
    [status |-> "completed", filename |-> filename, size |-> file_size]

\* The handler re-raising the exception as it is, without the prefix.
Fail_reraise(j, msg) ==
    /\ SetStatus(j, ErrorRecord(msg), ShortTTL)
    /\ th' = [th EXCEPT ![j].pc = "task_except", ![j].exc = msg]

\* The handler of download_video (lines 282-286): writes the error record with
\* str(e) and raises Exception("Failed to download: " + str(e)) to download_task.
Fail(j, msg) ==
    /\ SetStatus(j, ErrorRecord(msg), ShortTTL)
    /\ th' = [th EXCEPT ![j].pc = "task_except",
                        ![j].exc = <<"Failed to download: ">> \o msg]

\* The fallback query of download_video (line 221).
DefaultFormat == <<"bestvideo[height<=1080]+bestaudio/best[height<=1080]">>

\* Lines 182-228: the engine's 'format' option decoded from the selector.
ActualFormat(format_spec) ==
    IF StartsWith(format_spec, <<"video_", "audio_">>)
    THEN Remove(format_spec, <<"video_", "audio_">>)
    ELSE IF StartsWith(format_spec, <<"video_">>)
         THEN Remove(format_spec, <<"video_">>) \o <<"+bestaudio">>
         ELSE IF StartsWith(format_spec, <<"audio_">>)
              THEN Remove(format_spec, <<"audio_">>)
              ELSE DefaultFormat

\* Lines 238-243: the FFmpegExtractAudio postprocessor is requested for a
\* selector that starts with audio_ and for no other.
Postprocessors(format_spec) == StartsWith(format_spec, <<"audio_">>)

\* The options download_video hands to yt_dlp.YoutubeDL.
ydl_opts(format_spec) ==
    [format |-> ActualFormat(format_spec),
     postprocessors |-> Postprocessors(format_spec)]

\* download_task starts; download_video validates its arguments (a ValueError
\* raised here is outside its try block), writes the starting record and
\* builds the engine options.
TaskStart(j) ==
    /\ th[j].pc = "spawned"
    /\ IF ~is_valid_url(jobs[j].url)
       THEN /\ th' = [th EXCEPT ![j].pc = "task_except",
                                ![j].exc = <<"Invalid URL provided.">>]
            /\ UNCHANGED cache
       ELSE IF jobs[j].format = <<>>
            THEN /\ th' = [th EXCEPT ![j].pc = "task_except",
                                     ![j].exc = <<"Format specification is required.">>]
                 /\ UNCHANGED cache
            ELSE /\ SetStatus(j, [status |-> "starting"], ShortTTL)
                 /\ th' = [th EXCEPT ![j].pc = "engine",
                                     ![j].ydl_opts = ydl_opts(jobs[j].format)]
    /\ UNCHANGED <<now, ticks, files, jobs, last>>

\* An engine that calls the hook at any time after the job started, also
\* after extract_info has ended.
EngineCallback_any_time(j, d) ==
    /\ th[j].pc \notin {"none", "spawned"}
    /\ th[j].ncb < MaxCallbacks
    /\ "status" \in DOMAIN d
    /\ hook(j, d)
    /\ th' = [th EXCEPT ![j].ncb = @ + 1]
    /\ UNCHANGED <<now, ticks, files, jobs, last>>

\* d['status'] raises KeyError('status') on a callback without a status.
HookRaises(d) == "status" \notin DOMAIN d

\* The engine delivers a progress callback to the job's hook.  An exception
\* of the hook leaves extract_info and reaches download_video's handler.
EngineCallback(j, d) ==
    /\ th[j].pc = "engine"
    /\ th[j].ncb < MaxCallbacks
    /\ IF HookRaises(d)
       THEN Fail(j, <<"'status'">>)
       ELSE /\ hook(j, d)
            /\ th' = [th EXCEPT ![j].ncb = @ + 1]
    /\ UNCHANGED <<now, ticks, files, jobs, last>>

\* The engine writes its output file into the shared downloads directory.
EngineWriteFile(j, ext, size) ==
    /\ th[j].pc = "engine"
    /\ ~th[j].wrote
    /\ files' = WriteFile(files, Path(Title(jobs[j].url), ext), size)
    /\ th' = [th EXCEPT ![j].wrote = TRUE]
    /\ UNCHANGED <<now, ticks, cache, jobs, last>>

\* ydl.extract_info returns; filename = ydl.prepare_filename(info), with the
\* extension replaced by .mp3 for an audio_ selector (lines 248-256).
EngineReturn(j, ext) ==
    /\ th[j].pc = "engine"
    /\ LET predicted == Path(Title(jobs[j].url), ext)
       IN  th' = [th EXCEPT ![j].pc = "resolve",
                            ![j].filename =
                                IF StartsWith(jobs[j].format, <<"audio_">>)
                                THEN WithExt(predicted, "mp3")
                                ELSE predicted]
    /\ UNCHANGED <<now, ticks, cache, files, jobs, last>>

\* ydl.extract_info raises an exception whose text is msg.
EngineRaise(j, msg) ==
    /\ th[j].pc = "engine"
    /\ Fail(j, msg)
    /\ UNCHANGED <<now, ticks, files, jobs, last>>

\* The extensions tried when the predicted path does not exist, in order.
AltExts == <<"mp4", "webm", "m4a", "mp3">>

\* The resolution waiting for the file to appear instead of failing.
Resolve_waits(j) ==
    /\ th[j].pc = "resolve"
    /\ LET filename == th[j].filename
           found == {i \in 1..Len(AltExts) : Exists(WithExt(filename, AltExts[i]))}
           first == CHOOSE i \in found : \A k \in found : i <= k
       IN  IF Exists(filename)
           THEN /\ th' = [th EXCEPT ![j].pc = "measure"]
                /\ UNCHANGED cache
           ELSE IF found # {}
                THEN /\ th' = [th EXCEPT ![j].pc = "measure",
                                         ![j].filename = WithExt(filename, AltExts[first])]
                     /\ UNCHANGED cache
                ELSE UNCHANGED <<cache, th>>
    /\ UNCHANGED <<now, ticks, files, jobs, last>>

\* Lines 261-270: the predicted path, else the first alternate that exists.
Resolve(j) ==
    /\ th[j].pc = "resolve"
    /\ LET filename == th[j].filename
           found == {i \in 1..Len(AltExts) : Exists(WithExt(filename, AltExts[i]))}
           first == CHOOSE i \in found : \A k \in found : i <= k
       IN  IF Exists(filename)
           THEN /\ th' = [th EXCEPT ![j].pc = "measure"]
                /\ UNCHANGED cache
           ELSE IF found # {}
                THEN /\ th' = [th EXCEPT ![j].pc = "measure",
                                         ![j].filename = WithExt(filename, AltExts[first])]
                     /\ UNCHANGED cache
                ELSE Fail(j, <<"Downloaded file not found.">>)
    /\ UNCHANGED <<now, ticks, files, jobs, last>>

\* The measurement without the empty-file check.
Measure_no_empty_check(j) ==
    /\ th[j].pc = "measure"
    /\ LET filename == th[j].filename
       IN  IF ~Exists(filename)
           THEN /\ Fail(j, <<"No such file or directory">>)
                /\ UNCHANGED files
           ELSE /\ th' = [th EXCEPT ![j].pc = "complete",
                                    ![j].file_size = files[filename]]
                /\ UNCHANGED <<cache, files>>
    /\ UNCHANGED <<now, ticks, jobs, last>>

\* The measurement failing on an empty file without removing it.
Measure_keeps_empty(j) ==
    /\ th[j].pc = "measure"
    /\ LET filename == th[j].filename
       IN  IF ~Exists(filename)
           THEN /\ Fail(j, <<"No such file or directory">>)
                /\ UNCHANGED files
           ELSE IF files[filename] = 0
                THEN /\ UNCHANGED files
                     /\ Fail(j, <<"Downloaded file is empty">>)
                ELSE /\ th' = [th EXCEPT ![j].pc = "complete",
                                         ![j].file_size = files[filename]]
                     /\ UNCHANGED <<cache, files>>
    /\ UNCHANGED <<now, ticks, jobs, last>>

\* Lines 272-275: os.path.getsize (which raises when the file is gone), and
\* the removal of an empty file.
Measure(j) ==
    /\ th[j].pc = "measure"
    /\ LET filename == th[j].filename
       IN  IF ~Exists(filename)
           THEN /\ Fail(j, <<"No such file or directory">>)
                /\ UNCHANGED files
           ELSE IF files[filename] = 0
                THEN /\ files' = RemoveFile(files, filename)
                     /\ Fail(j, <<"Downloaded file is empty">>)
                ELSE /\ th' = [th EXCEPT ![j].pc = "complete",
                                         ![j].file_size = files[filename]]
                     /\ UNCHANGED <<cache, files>>
    /\ UNCHANGED <<now, ticks, jobs, last>>

\* Lines 279-281: the completed record, then return filename.
Complete(j) ==
    /\ th[j].pc = "complete"
    /\ SetStatus(j, CompletedRecord(th[j].filename, th[j].file_size), LongTTL)
    /\ th' = [th EXCEPT ![j].pc = "returned"]
    /\ UNCHANGED <<now, ticks, files, jobs, last>>

\* ---------------------------------------------------- views.download_task
\* cache.set(f"{progress_id}_file", file_path, 3600) after download_video
\* returned.
SetFile(j) ==
    /\ th[j].pc = "returned"
    /\ cache' = CacheSet(cache, FileKey(j), th[j].filename, LongTTL)
    /\ th' = [th EXCEPT ![j].pc = "done"]
    /\ UNCHANGED <<now, ticks, files, jobs, last>>

\* The handler storing the file entry of the path download_video had reached.
TaskExcept_sets_file(j) ==
    /\ th[j].pc = "task_except"
    /\ cache' = CacheSet(CacheSet(cache, StatusKey(j), ErrorRecord(th[j].exc), ShortTTL),
                         FileKey(j), th[j].filename, LongTTL)
    /\ th' = [th EXCEPT ![j].pc = "done"]
    /\ UNCHANGED <<now, ticks, files, jobs, last>>

\* except Exception as e: cache.set(progress_id, {'status': 'error',
\* 'error': str(e)}, 300).
TaskExcept(j) ==
    /\ th[j].pc = "task_except"
    /\ SetStatus(j, ErrorRecord(th[j].exc), ShortTTL)
    /\ th' = [th EXCEPT ![j].pc = "done"]
    /\ UNCHANGED <<now, ticks, files, jobs, last>>

\* ---------------------------------------------------- get_available_formats
\* The cap on the returned list: formats[:20].
FormatCap == 20

\* The size below which an entry is skipped: filesize < 1024.
MinFilesize == 1024

\* f.get('filesize'): the entry's size; None (here: no such field) and 0 are
\* both false in the code's tests.
HasFilesize(f) == "filesize" \in DOMAIN f /\ f.filesize # 0

\* f.get('filesize') and f.get('filesize') < 1024.
Skipped(f) == HasFilesize(f) /\ f.filesize < MinFilesize

\* f.get('vcodec') != 'none' and f.get('acodec') != 'none'.
HasVideo(f) == f.vcodec # "none"

HasAudio(f) == f.acodec # "none"

\* f.get('resolution', 'unknown').
SourceResolution(f) ==
    IF "resolution" \in DOMAIN f THEN f.resolution ELSE <<"unknown">>

\* format_info['type'] (lines 79-92).
FormatType(f) ==
    IF HasVideo(f) /\ HasAudio(f) THEN "video+audio"
    ELSE IF HasVideo(f) THEN "video"
         ELSE IF HasAudio(f) THEN "audio"
              ELSE "dropped"

\* The category prefix put before the engine's format id.
TypePrefix(type) ==
    CASE type = "video+audio" -> <<"video_", "audio_">>
      [] type = "video" -> <<"video_">>
      [] type = "audio" -> <<"audio_">>

\* format_info (lines 66-92).  A field whose value is None is left out:
\* resolution when the entry has no video codec, filesize when the engine
\* reports none.
FormatInfo(f) ==
    LET fields == {"format_id", "type", "vcodec", "acodec"}
                    \cup (IF HasVideo(f) THEN {"resolution"} ELSE {})
                    \cup (IF "filesize" \in DOMAIN f THEN {"filesize"} ELSE {})
    IN  [k \in fields |->
            CASE k = "format_id" -> TypePrefix(FormatType(f)) \o <<f.format_id>>
              [] k = "type" -> FormatType(f)
              [] k = "vcodec" -> f.vcodec
              [] k = "acodec" -> f.acodec
              [] k = "resolution" -> SourceResolution(f)
              [] k = "filesize" -> f.filesize]

\* The loop of lines 61-94: the entries kept, in the engine's order.
RECURSIVE Collect(_)
Collect(formats_list) ==
    IF formats_list = <<>> THEN <<>>
    ELSE LET f == Head(formats_list)
         IN  IF Skipped(f) \/ FormatType(f) = "dropped"
             THEN Collect(Tail(formats_list))
             ELSE <<FormatInfo(f)>> \o Collect(Tail(formats_list))

Digits == {"0", "1", "2", "3", "4", "5", "6", "7", "8", "9"}

DigitValue(c) ==
    CASE c = "0" -> 0 [] c = "1" -> 1 [] c = "2" -> 2 [] c = "3" -> 3
      [] c = "4" -> 4 [] c = "5" -> 5 [] c = "6" -> 6 [] c = "7" -> 7
      [] c = "8" -> 8 [] c = "9" -> 9

\* ''.join(filter(str.isdigit, resolution)): every digit of the string, in
\* order.
RECURSIVE DigitsOf(_)
DigitsOf(s) ==
    IF s = <<>> THEN <<>>
    ELSE IF Head(s) \in Digits THEN <<Head(s)>> \o DigitsOf(Tail(s))
         ELSE DigitsOf(Tail(s))

\* int(digits) for a non-empty string of digits.
RECURSIVE IntOf(_)
IntOf(ds) ==
    IF ds = <<>> THEN 0
    ELSE 10 * IntOf(SubSeq(ds, 1, Len(ds) - 1)) + DigitValue(ds[Len(ds)])

\* sort_key raises: filter(str.isdigit, None) is a TypeError for an entry
\* whose resolution is None, int('') a ValueError for one without digits.
SortKeyRaises(x) ==
    IF "resolution" \notin DOMAIN x THEN TRUE
    ELSE x.resolution # <<"unknown">> /\ DigitsOf(x.resolution) = <<>>

SortKeyError(x) ==
    IF "resolution" \notin DOMAIN x
    THEN <<"'NoneType' object is not iterable">>
    ELSE <<"invalid literal for int() with base 10: ''">>

TypePriority(type) ==
    CASE type = "video+audio" -> 0
      [] type = "video" -> 1
      [] type = "audio" -> 2
      [] OTHER -> 3

\* sort_key(x): (type priority, digits of the resolution, filesize or 0).
sort_key(x) ==
    <<TypePriority(x.type),
      IF x.resolution # <<"unknown">> THEN IntOf(DigitsOf(x.resolution)) ELSE 0,
      IF "filesize" \in DOMAIN x THEN x.filesize ELSE 0>>

\* Tuple comparison a < b.
KeyLess(a, b) ==
    \/ a[1] < b[1]
    \/ a[1] = b[1] /\ a[2] < b[2]
    \/ a[1] = b[1] /\ a[2] = b[2] /\ a[3] < b[3]

\* list.sort(key=sort_key, reverse=True): descending by key, entries with
\* equal keys in their original order.  x is put behind every entry whose key
\* is not smaller than its own.
RECURSIVE InsertDesc(_, _)
InsertDesc(sorted, x) ==
    IF sorted = <<>> THEN <<x>>
    ELSE IF KeyLess(sort_key(Head(sorted)), sort_key(x))
         THEN <<x>> \o sorted
         ELSE <<Head(sorted)>> \o InsertDesc(Tail(sorted), x)

RECURSIVE SortDesc(_)
SortDesc(formats) ==
    IF formats = <<>> THEN <<>>
    ELSE InsertDesc(SortDesc(SubSeq(formats, 1, Len(formats) - 1)),
                    formats[Len(formats)])

FormatsError(msg) ==
    [kind |-> "error", error |-> <<"Failed to get video formats: ">> \o msg]

\* get_available_formats(url) when the engine's extract_info(download=False)
\* returns info: the list of descriptors, or the exception raised.
get_available_formats(url, info) ==
    IF ~is_valid_url(url)
    THEN [kind |-> "error", error |-> <<"Invalid URL provided.">>]
    ELSE IF info.kind = "none"
         THEN FormatsError(<<"Failed to extract video information.">>)
         ELSE IF info.kind = "no_formats"
              THEN FormatsError(<<"No video formats available.">>)
              ELSE LET formats == Collect(info.formats)
                       raising == {i \in 1..Len(formats) : SortKeyRaises(formats[i])}
                       first == CHOOSE i \in raising : \A k \in raising : i <= k
                   IN  IF raising # {}
                       THEN FormatsError(SortKeyError(formats[first]))
                       ELSE IF formats = <<>>
                            THEN FormatsError(<<"No downloadable formats found.">>)
                            ELSE [kind |-> "formats",
                                  formats |->
                                      SubSeq(SortDesc(formats), 1,
                                             IF Len(formats) < FormatCap
                                             THEN Len(formats) ELSE FormatCap)]

\* ------------------------------------------------------------ specification
\* One job with every client input, the clock and the engine's callbacks.
Next ==
    \/ \E u \in Urls, f \in Formats : Submit(u, f, MaxJobs)
    \/ \E d \in {ShortTTL, LongTTL - ShortTTL} : Tick(d)
    \/ \E j \in Ids : TaskStart(j)
    \/ \E j \in Ids, d \in Callbacks : EngineCallback(j, d)
    \/ \E j \in Ids, e \in WriteExts, n \in 0..MaxSize : EngineWriteFile(j, e, n)
    \/ \E j \in Ids, e \in PredictedExts : EngineReturn(j, e)
    \/ \E j \in Ids, m \in EngineErrors : EngineRaise(j, m)
    \/ \E j \in Ids : Resolve(j)
    \/ \E j \in Ids : Measure(j)
    \/ \E j \in Ids : Complete(j)
    \/ \E j \in Ids : SetFile(j)
    \/ \E j \in Ids : TaskExcept(j)

Spec == Init /\ [][Next]_vars

\* Scheduling: a started thread keeps running, and the engine call comes to
\* an end, by returning or by raising.
EngineEnds(j) ==
    \/ \E e \in PredictedExts : EngineReturn(j, e)
    \/ \E m \in EngineErrors : EngineRaise(j, m)

Fairness ==
    \A j \in Ids :
        /\ WF_vars(TaskStart(j))
        /\ WF_vars(EngineEnds(j))
        /\ WF_vars(Resolve(j))
        /\ WF_vars(Measure(j))
        /\ WF_vars(Complete(j))
        /\ WF_vars(SetFile(j))
        /\ WF_vars(TaskExcept(j))

SpecLive == Init /\ [][Next]_vars /\ Fairness

\* Several jobs writing into the shared downloads directory: valid
\* submissions only, an engine that delivers no callbacks, no clock.
NextShared ==
    \/ \E u \in {UrlPadded, UrlUpper} : Submit(u, FmtMp4, MaxSharedJobs)
    \/ \E j \in Ids : TaskStart(j)
    \/ \E j \in Ids, e \in WriteExts, n \in 0..MaxSize : EngineWriteFile(j, e, n)
    \/ \E j \in Ids, e \in PredictedExts : EngineReturn(j, e)
    \/ \E j \in Ids, m \in EngineErrors : EngineRaise(j, m)
    \/ \E j \in Ids : Resolve(j)
    \/ \E j \in Ids : Measure(j)
    \/ \E j \in Ids : Complete(j)
    \/ \E j \in Ids : SetFile(j)
    \/ \E j \in Ids : TaskExcept(j)

SpecShared == Init /\ [][NextShared]_vars

\* The selector decoding alone: download_task calls download_video with a
\* valid URL and any selector; download_video validates, writes the starting
\* record and builds the engine options.
InitDecode ==
    /\ now = 0
    /\ ticks = 0
    /\ cache = CacheSet(<<>>, StatusKey(1), QueuedRecord, ShortTTL)
    /\ files = <<>>
    /\ jobs \in {<<[url |-> Strip(UrlPadded), format |-> f]>> : f \in Selectors}
    /\ th = [j \in Ids |-> IF j = 1 THEN [NoThread EXCEPT !.pc = "spawned"]
                           ELSE NoThread]
    /\ last = [progress_id |-> 1]

NextDecode ==
    \/ TaskStart(1)
    \/ TaskExcept(1)

SpecDecode == InitDecode /\ [][NextDecode]_vars

\* The format listing alone: a request for the formats of a URL is pending,
\* the engine has returned its metadata, and get_available_formats answers.
InitFormats ==
    /\ now = 0
    /\ ticks = 0
    /\ cache = <<>>
    /\ files = <<>>
    /\ jobs = <<>>
    /\ th = [j \in Ids |-> NoThread]
    /\ last \in {[url |-> u, info |-> i] : u \in {UrlUpper, UrlFtp}, i \in Infos}

ListFormats ==
    /\ "info" \in DOMAIN last
    /\ "response" \notin DOMAIN last
    /\ last' = [url |-> last.url, info |-> last.info,
                response |-> get_available_formats(last.url, last.info)]
    /\ UNCHANGED <<now, ticks, cache, files, jobs, th>>

NextFormats == ListFormats

SpecFormats == InitFormats /\ [][NextFormats]_vars

\* The progress hook alone: job 1 has been submitted and its thread is inside
\* the engine call; the engine delivers callbacks with any byte counts.
HookInputs ==
    {[status |-> "downloading", downloaded_bytes |-> dl, total_bytes |-> t] :
        dl \in (-MaxBytes)..MaxBytes, t \in (-MaxBytes)..MaxBytes}
    \cup {[status |-> "downloading", downloaded_bytes |-> dl] :
            dl \in (-MaxBytes)..MaxBytes}
    \cup {[status |-> "downloading", total_bytes |-> t] :
            t \in (-MaxBytes)..MaxBytes}
    \cup {[status |-> "downloading"], [status |-> "finished"], [status |-> "error"]}

InitHook ==
    /\ now = 0
    /\ ticks = 0
    /\ cache = CacheSet(<<>>, StatusKey(1), [status |-> "starting"], ShortTTL)
    /\ files = <<>>
    /\ jobs = <<[url |-> Strip(UrlPadded), format |-> FmtMp4]>>
    /\ th = [j \in Ids |-> IF j = 1 THEN [NoThread EXCEPT !.pc = "engine"]
                           ELSE NoThread]
    /\ last = [progress_id |-> 1]

NextHook == \E d \in HookInputs : EngineCallback(1, d)

SpecHook == InitHook /\ [][NextHook]_vars

\* ------------------------------------------------------------------ claims
\* The status record last written for job j, expired or not.
Stored(j) == cache[StatusKey(j)].val

HasRecord(j) == StatusKey(j) \in DOMAIN cache

Issued == 1..Len(jobs)

\* URLs that are empty, lack a scheme, lack a host or carry another scheme,
\* and the valid ones, listed by hand.
MalformedUrls ==
    {UrlEmpty, UrlBlank, UrlNoScheme, UrlNoSchemeHost, UrlNoHost, UrlNoSlashes,
     UrlFtp}

WellFormedUrls == {UrlPadded, UrlUpper}

\* C1: a submission with a malformed URL is answered with an error and
\* creates nothing: no id is issued, the cache is not written, no thread
\* is started.  (Stated contrapositively: a step that does not answer with an
\* error, or that changes the cache, the jobs or a thread, is no submission
\* of a malformed URL.)
C1_MalformedUrlCreatesNoJob ==
    [][("error" \notin DOMAIN last' \/ <<cache, jobs, th>>' # <<cache, jobs, th>>) =>
          \A u \in MalformedUrls, f \in Formats : ~index(u, f)]_vars

C1_Witness ==
    /\ last = [error |-> "Invalid URL"]
    /\ jobs = <<>>
    /\ cache = <<>>
    /\ \A j \in Ids : th[j].pc = "none"

\* C2 as stated: a poll made before any time has passed since the submission
\* reports queued, whatever the job's thread has done meanwhile.
C2_PollAfterSubmitIsQueued ==
    \A j \in Issued : ticks = 0 => get_progress(j).status = "queued"

\* C2 amended: such a poll reports one of the job's states, never not_found,
\* and reports queued as long as the job's thread has not taken its first step.
C2_PollAfterSubmit ==
    \A j \in Issued :
        ticks = 0 =>
            /\ get_progress(j).status \in
                   {"queued", "starting", "downloading", "completed", "error"}
            /\ th[j].pc = "spawned" => get_progress(j) = [status |-> "queued"]

C2_Witness ==
    /\ ticks = 0
    /\ 1 \in Issued
    /\ th[1].pc = "engine"
    /\ get_progress(1) = [status |-> "starting"]

\* The order queued, starting, downloading*, (completed | error): the states
\* that may be written after `prev` was written.
MayFollow(prev) ==
    CASE prev = "queued" -> {"starting", "downloading", "completed", "error"}
      [] prev = "starting" -> {"downloading", "completed", "error"}
      [] prev = "downloading" -> {"downloading", "completed", "error"}
      [] OTHER -> {}

\* A step that writes job j's status record.
WritesStatus(j) ==
    /\ StatusKey(j) \in DOMAIN cache'
    /\ HasRecord(j) => cache'[StatusKey(j)] # cache[StatusKey(j)]

\* C3: the states written to a job's record follow the order queued,
\* starting, downloading*, then one of completed or error: nothing is
\* written after a completed or an error write.
C3_WritesFollowOrder ==
    [][\A j \in Ids :
          (HasRecord(j) /\ WritesStatus(j)) =>
              cache'[StatusKey(j)].val.status \in MayFollow(Stored(j).status)]_vars

\* C4: once a poll can return a completed or error record, every later poll
\* returns the same record, or not_found after its expiry.
C4_TerminalRecordStable ==
    [][\A j \in Ids :
          get_progress(j).status \in {"completed", "error"} =>
              get_progress(j)' \in {get_progress(j), NotFound}]_vars

\* C5: the percent stored for a downloading callback is an integer from 0
\* to 100.
C5_PercentInRange ==
    \A j \in Ids :
        (HasRecord(j) /\ Stored(j).status = "downloading") =>
            Stored(j).percent \in 0..100

\* Whether the file at the path of job j's completed record has the size the
\* record states.
SizeMatchesFile(j) ==
    /\ Exists(Stored(j).filename)
    /\ files[Stored(j).filename] = Stored(j).size

\* C6 as stated: the size of a completed record is positive and is the size
\* of the file at its path, whatever other jobs do in the shared directory.
C6_CompletedSizeMatchesFile ==
    \A j \in Ids :
        (HasRecord(j) /\ Stored(j).status = "completed") =>
            Stored(j).size > 0 /\ SizeMatchesFile(j)

\* Job j is the only job whose source has its title.
SoleTitle(j) ==
    \A k \in Issued \ {j} : Title(jobs[k].url) # Title(jobs[j].url)

\* C6 amended: the size of a completed record is positive; it is the size of
\* the file at its path when no other job derives its file name from the same
\* title.
C6_CompletedSize ==
    \A j \in Ids :
        (HasRecord(j) /\ Stored(j).status = "completed") =>
            /\ Stored(j).size > 0
            /\ SoleTitle(j) => SizeMatchesFile(j)

C6_Witness ==
    /\ Len(jobs) = 2
    /\ SoleTitle(1)
    /\ HasRecord(1) /\ Stored(1).status = "completed"
    /\ th[2].pc \in {"returned", "done"}
    /\ SizeMatchesFile(1)

\* C7: a job whose record is not completed and was last written 300 seconds
\* ago or more polls as not_found, and so does an id that was never issued.
C7_ExpiredIsNotFound ==
    \A j \in Ids :
        /\ (HasRecord(j) /\ Stored(j).status # "completed"
                /\ now - cache[StatusKey(j)].set_at >= 300) =>
               get_progress(j) = NotFound
        /\ j \notin Issued => get_progress(j) = NotFound

C7_Witness ==
    /\ 1 \in Issued
    /\ Stored(1).status = "downloading"
    /\ now - cache[StatusKey(1)].set_at = 300
    /\ get_progress(1) = NotFound
    /\ get_progress(2) = NotFound

\* C8: download_file serves the file exactly when the polled state is
\* completed and the file of the record exists.
C8_FetchIffCompleted ==
    \A j \in Ids :
        (download_file(j).kind = "file") <=>
            /\ get_progress(j).status = "completed"
            /\ Exists(get_progress(j).filename)

NoResultFields(rec) == "filename" \notin DOMAIN rec /\ "size" \notin DOMAIN rec

\* C9 as stated: a poll that observes state error sees a non-empty message
\* and no result fields.
C9_ErrorHasMessage ==
    \A j \in Ids :
        get_progress(j).status = "error" =>
            get_progress(j).error # <<>> /\ NoResultFields(get_progress(j))

\* C9 amended: a poll that observes state error sees no result fields, and a
\* non-empty message except between the write of download_video's handler and
\* that of download_task's handler, when the engine's exception has no text.
C9_ErrorRecord ==
    \A j \in Ids :
        get_progress(j).status = "error" =>
            /\ NoResultFields(get_progress(j))
            /\ get_progress(j).error # <<>> \/ th[j].pc = "task_except"

C9_Witness ==
    /\ th[1].pc = "done"
    /\ get_progress(1) = [status |-> "error", error |-> <<"Failed to download: ">>]

\* C10: a submission with a valid URL and a non-empty format selector, the
\* category-prefixed ones included, is answered with a job id whose record
\* is queued.
C10_ValidSubmissionQueued ==
    [][\A u \in WellFormedUrls, f \in Formats \ {FmtEmpty} :
          index(u, f) =>
              /\ "progress_id" \in DOMAIN last'
              /\ cache'[StatusKey(Len(jobs'))].val = [status |-> "queued"]]_vars

\* Whether job j's thread has built the engine options and is inside the
\* engine call.
EngineInvoked(j) == th[j].pc = "engine"

\* Whether a selector is in the audio category or carries an audio-indicating
\* token (the audio category tag or an audio container extension).
AudioIndicated(format_spec) ==
    \E i \in 1..Len(format_spec) : format_spec[i] \in {"audio_", "mp3", "m4a"}

\* C11: the engine is invoked with the audio re-encoding postprocessor when
\* the selector is mp3 and without it when the selector is mp4; more
\* generally, with it whenever the selector is in the audio category or
\* carries an audio-indicating token.
C11_AudioPostprocessing ==
    \A j \in Issued :
        EngineInvoked(j) =>
            /\ jobs[j].format = FmtMp4 => ~th[j].ydl_opts.postprocessors
            /\ jobs[j].format = FmtMp3 => th[j].ydl_opts.postprocessors
            /\ AudioIndicated(jobs[j].format) => th[j].ydl_opts.postprocessors

\* The answer of get_available_formats, when it is a list.
Listed == "response" \in DOMAIN last /\ last.response.kind = "formats"

\* The place of a category in the best-first order: combined streams, then
\* video-only streams, then audio-only streams.
CategoryRank(type) ==
    CASE type = "video+audio" -> 1
      [] type = "video" -> 2
      [] type = "audio" -> 3

\* The resolution height and the size an entry is ranked by (unknown is 0).
RankHeight(x) == sort_key(x)[2]

RankSize(x) == sort_key(x)[3]

\* C12: the returned list is ordered best-first: combined entries before
\* video-only entries before audio-only entries; within a category by
\* descending resolution height, and for equal height by descending size.
C12_ListOrderedBestFirst ==
    Listed =>
        LET fs == last.response.formats
        IN  \A i, k \in 1..Len(fs) :
                i < k =>
                    \/ CategoryRank(fs[i].type) < CategoryRank(fs[k].type)
                    \/ /\ fs[i].type = fs[k].type
                       /\ \/ RankHeight(fs[i]) > RankHeight(fs[k])
                          \/ /\ RankHeight(fs[i]) = RankHeight(fs[k])
                             /\ RankSize(fs[i]) >= RankSize(fs[k])

Terminal(j) == HasRecord(j) /\ Stored(j).status \in {"completed", "error"}

\* C13: every job whose thread has been started eventually has a completed
\* or an error record written, whatever fails inside the thread (validation,
\* an engine error, a missing or empty file, an exception of the progress
\* hook), provided the engine call returns or raises.
C13_EventuallyTerminal ==
    \A j \in Ids : (th[j].pc = "spawned") ~> (th[j].pc = "done" /\ Terminal(j))

C13_Witness ==
    /\ th[1].pc = "done"
    /\ Stored(1) = ErrorRecord(<<"Failed to download: ", "'status'">>)

\* A step in which job j's hook handles a callback.
HookStep(j) == th'[j].ncb # th[j].ncb

\* C14: the hook runs only inside the engine call; download_video's
\* completed write and the error writes of the failure handlers are made
\* once the engine call has returned or raised; so the last write to a job's
\* record is the completed record or the handler's error record, never a
\* write of the hook.
C14_LastWriteByOrchestrator ==
    [][\A j \in Ids :
          /\ HookStep(j) => th[j].pc = "engine" /\ th'[j].pc = "engine"
          /\ (WritesStatus(j) /\ ~HookStep(j)
                  /\ cache'[StatusKey(j)].val.status \in {"completed", "error"}) =>
                 th'[j].pc \in {"returned", "task_except", "done"}
          /\ th'[j].pc = "done" =>
                 Stored(j)' \in {CompletedRecord(th'[j].filename, th'[j].file_size),
                                 ErrorRecord(th'[j].exc)}]_vars

C14_Witness ==
    /\ th[1].pc = "done"
    /\ th[1].ncb = MaxCallbacks
    /\ Stored(1).status = "completed"

\* The percent the hook is to store for a downloading callback: 0 when the
\* total is absent, zero or negative, else downloaded * 100 / total truncated.
GuardedPercent(d) ==
    IF "total_bytes" \notin DOMAIN d \/ d.total_bytes <= 0 THEN 0
    ELSE TruncDiv(HookDownloaded(d) * 100, d.total_bytes)

\* C15: for a downloading callback whose total byte count is absent, zero
\* or negative the hook stores percent 0; otherwise it stores
\* downloaded * 100 / total truncated to an integer.
C15_PercentGuarded ==
    [][\A d \in HookInputs :
          (d.status = "downloading" /\ EngineCallback(1, d)) =>
              Stored(1)'.percent = GuardedPercent(d)]_vars

\* The fields of the three payloads of a job record.
ProgressFields == {"percent", "downloaded", "total", "speed", "eta"}

ResultFields == {"filename", "size"}

ErrorFields == {"error"}

\* The payload fields a record of the given state may carry.
PayloadOf(status) ==
    CASE status = "downloading" -> ProgressFields
      [] status = "completed" -> ResultFields
      [] status = "error" -> ErrorFields
      [] OTHER -> {}

\* C16: every job record in the store carries at most one of the payloads
\* progress, result and error, and only the one of its state: progress
\* fields when downloading, path and size when completed, a message when
\* error, none when queued or starting.
C16_OnePayloadPerState ==
    \A j \in Ids :
        HasRecord(j) =>
            /\ Stored(j).status \in
                   {"queued", "starting", "downloading", "completed", "error"}
            /\ DOMAIN Stored(j) \ {"status"} \subseteq PayloadOf(Stored(j).status)

C16_Witness ==
    /\ th[1].pc = "returned"
    /\ th[1].ncb > 0
    /\ DOMAIN Stored(1) = {"status"} \cup ResultFields

\* The selector without its first n tokens.
Drop(format_spec, n) == SubSeq(format_spec, n + 1, Len(format_spec))

\* The category tag a selector starts with: the longest of the three.
Category(format_spec) ==
    IF StartsWith(format_spec, <<"video_", "audio_">>) THEN "video_audio_"
    ELSE IF StartsWith(format_spec, <<"video_">>) THEN "video_"
         ELSE IF StartsWith(format_spec, <<"audio_">>) THEN "audio_"
              ELSE "none"

\* C17: the decoding strips exactly the category prefix: video_audio_<id>
\* gives format <id>, video_<id> gives <id>+bestaudio, audio_<id> gives <id>
\* with the audio postprocessor, also when <id> contains the text of a tag;
\* a selector without a tag gives the default query.
C17_DecodingStripsPrefix ==
    \A j \in Issued :
        EngineInvoked(j) =>
            LET format_spec == jobs[j].format
                opts == th[j].ydl_opts
            IN  CASE Category(format_spec) = "video_audio_" ->
                        opts = [format |-> Drop(format_spec, 2),
                                postprocessors |-> FALSE]
                  [] Category(format_spec) = "video_" ->
                        opts = [format |-> Drop(format_spec, 1) \o <<"+bestaudio">>,
                                postprocessors |-> FALSE]
                  [] Category(format_spec) = "audio_" ->
                        opts = [format |-> Drop(format_spec, 1),
                                postprocessors |-> TRUE]
                  [] OTHER ->
                        opts = [format |-> DefaultFormat, postprocessors |-> FALSE]

\* The exceptions download_task receives for an empty and for a missing file.
EmptyFileFailure == <<"Failed to download: ", "Downloaded file is empty">>

MissingFileFailure == <<"Failed to download: ", "Downloaded file not found.">>

\* Neither the predicted path of job j nor one of its alternates exists.
NoCandidate(j) ==
    /\ ~Exists(th[j].filename)
    /\ \A e \in {"mp4", "webm", "m4a", "mp3"} : ~Exists(WithExt(th[j].filename, e))

\* C18: when the resolved file exists with size zero, the thread deletes it
\* and writes error; when neither the predicted path nor an alternate
\* exists, it writes error as well; from then on the job's record is an
\* error record, never completed, and the job has no _file entry.
C18_EmptyOrMissingFileFails ==
    [][\A j \in Ids :
          /\ (th[j].pc = "measure" /\ th'[j].pc # "measure"
                  /\ Exists(th[j].filename) /\ files[th[j].filename] = 0) =>
                 /\ th[j].filename \notin DOMAIN files'
                 /\ th'[j].exc = EmptyFileFailure
                 /\ th'[j].pc = "task_except"
          /\ (th[j].pc = "resolve" /\ th'[j].pc # "resolve" /\ NoCandidate(j)) =>
                 /\ th'[j].exc = MissingFileFailure
                 /\ th'[j].pc = "task_except"
          /\ (th'[j].exc \in {EmptyFileFailure, MissingFileFailure}) =>
                 /\ th'[j].pc \in {"task_except", "done"}
                 /\ Stored(j)'.status = "error"
                 /\ FileKey(j) \notin DOMAIN cache']_vars

C18_Witness ==
    /\ th[1].pc = "done"
    /\ th[1].wrote
    /\ th[1].exc = EmptyFileFailure
    /\ files = <<>>
    /\ get_progress(1).status = "error"
    /\ download_file(1).kind = "error"

\* The category and the tagged id an engine entry is to be listed with:
\* audio_only for an audio codec alone, video_only for a video codec alone,
\* video_and_audio for both.
Descriptor(f) ==
    IF f.vcodec # "none" /\ f.acodec # "none"
    THEN [type |-> "video+audio", format_id |-> <<"video_", "audio_", f.format_id>>]
    ELSE IF f.vcodec # "none"
         THEN [type |-> "video", format_id |-> <<"video_", f.format_id>>]
         ELSE [type |-> "audio", format_id |-> <<"audio_", f.format_id>>]

\* The catalog positions that are to be listed: a codec is present and the
\* size is not under 1KB.
Listable(catalog) ==
    {i \in 1..Len(catalog) :
        /\ catalog[i].vcodec # "none" \/ catalog[i].acodec # "none"
        /\ "filesize" \in DOMAIN catalog[i] => catalog[i].filesize >= 1024}

\* C19: for a catalog of the engine, the listing returns each entry with an
\* audio codec alone as audio_only with id audio_<id>, with a video codec
\* alone as video_only with id video_<id>, with both as video_and_audio with
\* id video_audio_<id>, and drops the entries with neither; a catalog with
\* audio-only entries is returned with those entries present.
C19_ListCategorizesEntries ==
    ("response" \in DOMAIN last /\ last.info.kind = "list"
        /\ is_valid_url(last.url) /\ Listable(last.info.formats) # {}) =>
        /\ last.response.kind = "formats"
        /\ LET catalog == last.info.formats
               fs == last.response.formats
           IN  /\ Len(fs) = Cardinality(Listable(catalog))
               /\ \A i \in Listable(catalog) :
                      \E k \in 1..Len(fs) :
                          /\ fs[k].type = Descriptor(catalog[i]).type
                          /\ fs[k].format_id = Descriptor(catalog[i]).format_id

HasFileEntry(j) == FileKey(j) \in DOMAIN cache

\* A step that writes job j's _file entry.
WritesFileEntry(j) ==
    /\ FileKey(j) \in DOMAIN cache'
    /\ HasFileEntry(j) => cache'[FileKey(j)] # cache[FileKey(j)]

\* C20: a job's _file entry is written only after its completed record, at
\* most once, with the path of that record; a job that ended in error has
\* no _file entry.
C20_FileEntryAfterCompleted ==
    [][\A j \in Ids :
          /\ WritesFileEntry(j) =>
                 /\ ~HasFileEntry(j)
                 /\ Terminal(j) /\ Stored(j).status = "completed"
          /\ FileKey(j) \in DOMAIN cache' =>
                 /\ Stored(j)'.status = "completed"
                 /\ cache'[FileKey(j)].val = Stored(j)'.filename
          /\ (th'[j].pc = "done" /\ Stored(j)'.status = "error") =>
                 FileKey(j) \notin DOMAIN cache']_vars

C20_Witness ==
    /\ th[1].pc = "done"
    /\ HasFileEntry(1)
    /\ cache[FileKey(1)].val = Stored(1).filename
    /\ cache[FileKey(1)].val # Path(Title(jobs[1].url), "mkv")
    /\ download_file(1).kind = "file"

====
